---- MODULE Spec2Model ----
(***************************************************************************)
(* Model of the spine-db indexing pipeline (indexer.py, extractor.py,      *)
(* schema.py): index_files expands its arguments into a candidate list and *)
(* calls index_file on each candidate, which looks the resolved path up,   *)
(* extracts metadata, and adds and commits one SpineFile row.              *)
(*                                                                         *)
(* A path is the sequence of its parts (pathlib's Path.parts): an absolute *)
(* path starts with the part "/".  A run of index_files is a process; its  *)
(* steps are split at the statements that talk to the database, so that    *)
(* two runs against the same database can interleave there.                *)
(***************************************************************************)
EXTENDS Integers, Sequences, FiniteSets, TLC

\* ------------------------------------------------------------------ bounds

\* Longest `files` argument (patterns and literals) given to index_files.
MaxPatterns == 2

\* Longest `files` argument when two invocations run at once.
MaxRacePatterns == 1

\* Store errors (other than uniqueness violations) the database raises in
\* one behaviour.
MaxFaults == 1
MaxExtractPatterns == 1

\* The invocations of index_files.
Procs == {1, 2}

\* Python's None, and a value that is present: optional fields hold one of them.
None == << >>

Some(v) == << v >>

\* -------------------------------------------------------------- file system

\* Working directory of the process.
Cwd == <<"/", "data">>

PathA == <<"/", "data", "icarus", "a.h5">>
RelA == <<"icarus", "a.h5">>
PathB == <<"/", "data", "b.h5">>
PathBad == <<"/", "data", "bad.h5">>
PathGone == <<"/", "data", "gone.h5">>
GlobData == <<"/", "data", "*.h5">>
PathC == <<"/", "data", "sbnd", "c.h5">>
PathE == <<"/", "data", "fsd", "2x2", "e.h5">>
PathF == <<"/", "data", "icarus", "f.h5">>
PathP == <<"/", "data", "sbnd", "p.h5">>
PathQ == <<"/", "data", "sbnd", "q.h5">>
PathR == <<"/", "data", "sbnd", "r.h5">>

\* /data/latest is a symbolic link to the directory /data/icarus.
Symlinks == (<<"/", "data", "latest">> :> <<"/", "data", "icarus">>)

\* Two more spellings of a.h5: through the link, and with dot parts.
LinkA == <<"/", "data", "latest", "a.h5">>
DotsA == <<"..", "data", ".", "icarus", "a.h5">>

\* HDF5 containers on disk: root attributes and the `events` dataset.
\* `compound` tells whether the dataset has named columns (dtype.names is
\* None otherwise); `corrupt` holds the parts whose read or conversion
\* raises: "attrs" or a column of `events`.
Containers ==
  (PathA :> [attrs |-> ("version" :> "0.7.0"),
             corrupt |-> {},
             datasets |-> ("events" :>
                [compound |-> TRUE,
                 names |-> {"run", "subrun", "event_id"},
                 rows |-> << [run |-> 12, subrun |-> 1, event_id |-> 5],
                             [run |-> 12, subrun |-> 1, event_id |-> 3],
                             [run |-> 12, subrun |-> 1, event_id |-> 9],
                             [run |-> 12, subrun |-> 1, event_id |-> 7] >>])])
  @@
  (PathB :> [attrs |-> ("spine_version" :> "0.8.0") @@ ("version" :> "0.1.0")
                       @@ ("spine_prod_version" :> "1.2.0")
                       @@ ("config_name" :> "sbnd_full_chain")
                       @@ ("dataset" :> "sbnd_run2"),
             corrupt |-> {},
             datasets |-> << >>])
  @@
  (PathC :> [attrs |-> ("model_name" :> "mpvmpr") @@ ("config_name" :> "cfg")
                       @@ ("dataset_name" :> "ds1") @@ ("dataset" :> "ds0"),
             corrupt |-> {},
             datasets |-> ("events" :>
                [compound |-> TRUE,
                 names |-> {"run", "event", "event_id"},
                 rows |-> << [run |-> 7, event |-> 8, event_id |-> 100],
                             [run |-> 7, event |-> 2, event_id |-> 200] >>])])
  @@
  (PathE :> [attrs |-> << >>,
             corrupt |-> {},
             datasets |-> ("events" :>
                [compound |-> TRUE,
                 names |-> {"subrun", "event_id"},
                 rows |-> << >>])])
  @@
  (PathF :> [attrs |-> ("model_name" :> "") @@ ("config_name" :> "cfg")
                       @@ ("dataset_name" :> "") @@ ("spine_version" :> ""),
             corrupt |-> {},
             datasets |-> ("events" :>
                [compound |-> TRUE,
                 names |-> {"run", "subrun"},
                 rows |-> << [run |-> 3, subrun |-> 4] >>])])
  @@
  (PathP :> [attrs |-> ("spine_version" :> "0.9.0"),
             corrupt |-> {},
             datasets |-> ("events" :>
                [compound |-> FALSE, names |-> {}, rows |-> << >>])])
  @@
  (PathQ :> [attrs |-> ("version" :> "0.9.1") @@ ("dataset" :> "q_set"),
             corrupt |-> {"event"},
             datasets |-> ("events" :>
                [compound |-> TRUE,
                 names |-> {"run", "subrun", "event"},
                 rows |-> << [run |-> 5, subrun |-> 2, event |-> 1] >>])])
  @@
  (PathR :> [attrs |-> ("spine_version" :> "0.9.2"),
             corrupt |-> {"attrs"},
             datasets |-> << >>])

\* Files on disk; bad.h5 exists but is not an HDF5 container.
OnDisk == DOMAIN Containers \cup {PathBad}

IsAbsolute(path) == Len(path) > 0 /\ path[1] = "/"

\* The walk of resolve() over the parts of an absolute path: `done` is the
\* canonical prefix so far; "." is dropped, ".." steps up, and a prefix that
\* is a symbolic link is replaced by its target.
RECURSIVE Canon(_, _)
Canon(done, rest) ==
  IF rest = << >> THEN done
  ELSE LET part == Head(rest)
           next == Append(done, part)
       IN  IF part = "." THEN Canon(done, Tail(rest))
           ELSE IF part = ".."
           THEN Canon(IF Len(done) > 1 THEN SubSeq(done, 1, Len(done) - 1)
                      ELSE done, Tail(rest))
           ELSE IF next \in DOMAIN Symlinks
           THEN Canon(Symlinks[next], Tail(rest))
           ELSE Canon(next, Tail(rest))

\* Path(p).resolve(): absolute, canonical spelling of a path.
Resolve(path) ==
  LET absolute == IF IsAbsolute(path) THEN path ELSE Cwd \o path
  IN  Canon(<< "/" >>, Tail(absolute))

\* The loop without its existence check.
Exists_always(path) == TRUE

\* Path(p).exists()
Exists(path) == Resolve(path) \in OnDisk

\* Path(p).stem of the files above: the last part without its suffix.
Stem(path) ==
  CASE path[Len(path)] = "a.h5" -> "a"
    [] path[Len(path)] = "b.h5" -> "b"
    [] path[Len(path)] = "bad.h5" -> "bad"
    [] path[Len(path)] = "c.h5" -> "c"
    [] path[Len(path)] = "e.h5" -> "e"
    [] path[Len(path)] = "f.h5" -> "f"
    [] path[Len(path)] = "p.h5" -> "p"
    [] path[Len(path)] = "q.h5" -> "q"
    [] path[Len(path)] = "r.h5" -> "r"
    [] OTHER -> "gone"

\* ------------------------------------------------------------- extractor.py

KnownSites == << "icarus", "sbnd", "2x2", "nd-lar", "fsd" >>

\* A dict whose file_path would be set only after the container is read.
EmptyMetadata_nopath(file_path) ==
  [file_path |-> None, spine_version |-> None, spine_prod_version |-> None,
   model_name |-> None, dataset_name |-> None, run |-> None, subrun |-> None,
   event_min |-> None, event_max |-> None, num_events |-> None]

\* The metadata dict as extract_metadata creates it: only file_path is set.
EmptyMetadata(file_path) ==
  [file_path |-> file_path, spine_version |-> None, spine_prod_version |-> None,
   model_name |-> None, dataset_name |-> None, run |-> None, subrun |-> None,
   event_min |-> None, event_max |-> None, num_events |-> None]

\* `not value` for an optional string: None and the empty string are falsy.
Falsy(v) == v = None \/ v = Some("")

\* Root attributes: the primary key of a field, else its alternate key.
ReadAttrs(md, attrs) ==
  LET has(k) == k \in DOMAIN attrs
      version == IF has("spine_version") THEN Some(attrs["spine_version"])
                 ELSE IF has("version") THEN Some(attrs["version"])
                 ELSE md.spine_version
      prod == IF has("spine_prod_version") THEN Some(attrs["spine_prod_version"])
              ELSE md.spine_prod_version
      model == IF has("model_name") THEN Some(attrs["model_name"])
               ELSE IF has("config_name") THEN Some(attrs["config_name"])
               ELSE md.model_name
      dataset == IF has("dataset_name") THEN Some(attrs["dataset_name"])
                 ELSE IF has("dataset") THEN Some(attrs["dataset"])
                 ELSE md.dataset_name
  IN  [md EXCEPT !.spine_version = version, !.spine_prod_version = prod,
                 !.model_name = model, !.dataset_name = dataset]

\* The first value of a column in place of np.min.
ColMin_first(rows, col) == rows[1][col]

\* np.min and np.max of a column of the events dataset.
ColMin(rows, col) ==
  CHOOSE m \in {rows[i][col] : i \in DOMAIN rows} :
    \A i \in DOMAIN rows : m <= rows[i][col]

ColMax(rows, col) ==
  CHOOSE m \in {rows[i][col] : i \in DOMAIN rows} :
    \A i \in DOMAIN rows : m >= rows[i][col]

\* One step of the try block: the dict so far, and whether a read has raised.
Step(md, raised) == [md |-> md, raised |-> raised]

\* The `events` dataset: run and subrun of the first row, and the range and
\* count of the event column (`event`, else `event_id`). The dict is
\* assigned in place, so a read that raises keeps what was set before it.
ReadEvents(md, events, corrupt) ==
  LET names == events.names
      rows == events.rows
      run == IF "run" \in names
             THEN [md EXCEPT !.run = IF Len(rows) > 0 THEN Some(rows[1].run)
                                     ELSE None]
             ELSE md
      subrun == IF "subrun" \in names
                THEN [run EXCEPT !.subrun = IF Len(rows) > 0
                                            THEN Some(rows[1].subrun) ELSE None]
                ELSE run
      has_col == "event" \in names \/ "event_id" \in names
      event_col == IF "event" \in names THEN "event" ELSE "event_id"
      filled == has_col /\ Len(rows) > 0
      event == [subrun EXCEPT
                  !.event_min = IF filled THEN Some(ColMin(rows, event_col)) ELSE @,
                  !.event_max = IF filled THEN Some(ColMax(rows, event_col)) ELSE @,
                  !.num_events = IF filled THEN Some(Len(rows)) ELSE @]
  IN  IF ~events.compound THEN Step(md, TRUE)
      ELSE IF "run" \in names /\ "run" \in corrupt THEN Step(md, TRUE)
      ELSE IF "subrun" \in names /\ "subrun" \in corrupt THEN Step(run, TRUE)
      ELSE IF has_col /\ event_col \in corrupt THEN Step(subrun, TRUE)
      ELSE Step(event, FALSE)

\* Inference from the path, for the fields the container left unset.
InferFromPath(md, file_path) ==
  LET parts == {file_path[i] : i \in DOMAIN file_path}
      hits == {k \in DOMAIN KnownSites : KnownSites[k] \in parts}
      first == CHOOSE k \in hits : \A j \in hits : k <= j
      model == IF Falsy(md.model_name) /\ hits # {}
               THEN Some(KnownSites[first]) ELSE md.model_name
      dataset == IF Falsy(md.dataset_name)
                 THEN Some(Stem(file_path)) ELSE md.dataset_name
  IN  [md EXCEPT !.model_name = model, !.dataset_name = dataset]

\* The try block of extract_metadata: a file that h5py cannot open, or
\* whose attributes cannot be read, leaves the dict as created; inference
\* runs only when nothing before it has raised.
Read(path) ==
  LET file_path == Resolve(path)
      md0 == EmptyMetadata(file_path)
  IN  IF file_path \notin DOMAIN Containers THEN Step(md0, TRUE)
      ELSE LET f == Containers[file_path]
               md1 == ReadAttrs(md0, f.attrs)
               ev == IF "events" \in DOMAIN f.datasets
                     THEN ReadEvents(md1, f.datasets["events"], f.corrupt)
                     ELSE Step(md1, FALSE)
           IN  IF "attrs" \in f.corrupt THEN Step(md0, TRUE)
               ELSE IF ev.raised THEN ev
               ELSE Step(InferFromPath(ev.md, file_path), FALSE)

\* extract_metadata: the dict is returned whether or not a read raised.
extract_metadata(path) == Read(path).md

\* A validator that also wants a version.
validate_metadata_strict(metadata) ==
  metadata.file_path # None /\ metadata.spine_version # None

validate_metadata(metadata) == metadata.file_path # None

\* ---------------------------------------------------------------- state

VARIABLES
  catalog,        \* the committed rows of table spine_files
  next_id,        \* the autoincrement counter of spine_files.id
  clock,          \* datetime.utcnow(), in ticks
  faults,         \* store errors raised so far
  listing,        \* the order in which the directory lists /data/*.h5
  files,          \* the `files` argument: the batch the operator indexes
  pc,             \* where each run of index_files stands
  file_list,      \* the expanded candidate list of each run
  skip_existing,  \* the skip_existing argument of each run
  idx,            \* position of the for loop in file_list
  success_count,
  error_count,
  log,            \* the outcome line printed for each candidate, in order
  pending,        \* session.new: rows added to the session, not yet committed
  exc,            \* the exception being handled, or that left index_files
  view            \* the response of a browse callback, until it is sent

vars == << catalog, next_id, clock, faults, listing, files, view, pc, file_list, skip_existing, idx,
           success_count, error_count, log, pending, exc >>

\* ------------------------------------------------------------- schema.py

\* A SpineFile row as the database stores it: the constructor's columns,
\* the autoincrement id, and created_at defaulting to the insertion time.
SpineFile(metadata, id, now) ==
  [id |-> id, created_at |-> now] @@ metadata

CatalogPaths == {r.file_path : r \in catalog}

\* The column declared without unique=True.
UniqueViolation_undeclared(rows) == FALSE

\* file_path is declared unique=True: a flush that would store a path twice
\* fails with an IntegrityError.
UniqueViolation(rows) ==
  \/ \E k \in DOMAIN rows : rows[k].file_path \in CatalogPaths
  \/ \E k, l \in DOMAIN rows : k # l /\ rows[k].file_path = rows[l].file_path

\* The rows a commit of the pending objects `rows` writes: ids are handed
\* out in order, and a refused insert uses none up.
Flushed(rows) ==
  {SpineFile(rows[k], next_id + k - 1, clock) : k \in DOMAIN rows}

\* session.merge in place of session.add: the row of a path already
\* cataloged is replaced.
commit_merge(rows) ==
  [ok |-> TRUE,
   catalog |-> {r \in catalog :
                 \A k \in DOMAIN rows : r.file_path # rows[k].file_path}
               \cup Flushed(rows),
   pending |-> << >>]

\* session.flush in place of session.commit: nothing is committed.
commit_deferred(rows) ==
  [ok |-> TRUE, catalog |-> catalog, pending |-> rows]

\* session.add(run); session.commit() with `rows` pending: either the flush
\* violates the unique constraint and nothing is written, or every pending
\* row is written and the session is left without pending rows.
commit(rows) ==
  IF UniqueViolation(rows)
  THEN [ok |-> FALSE, catalog |-> catalog, pending |-> rows]
  ELSE [ok |-> TRUE, catalog |-> catalog \cup Flushed(rows), pending |-> << >>]

\* A lookup that never finds the row.
find_by_path_never(file_path) == FALSE

\* session.query(SpineFile).filter_by(file_path=...).first() is not None
find_by_path(file_path) == \E r \in catalog : r.file_path = file_path

\* -------------------------------------------------------------- indexer.py

Patterns == {PathA, RelA, PathB, PathBad, PathGone, GlobData}

\* `"*" in pattern or "?" in pattern`
IsGlob(pattern) == \E k \in DOMAIN pattern : pattern[k] \in {"*.h5"}

\* The orders in which glob.glob may list the matches of /data/*.h5: the
\* existing files of /data with suffix .h5, in directory order.
GlobResults == { << PathB, PathBad >>, << PathBad, PathB >> }

\* The loop that expands the `files` argument into file_list; `matches` is
\* what glob.glob returns.
RECURSIVE Expand(_, _)
Expand(patterns, matches) ==
  IF patterns = << >> THEN << >>
  ELSE (IF IsGlob(Head(patterns)) THEN matches ELSE << Head(patterns) >>)
       \o Expand(Tail(patterns), matches)

Inputs == UNION {[1..n -> Patterns] : n \in 0..MaxPatterns}

\* Spellings of one file, and a missing file.
Spellings == {PathA, RelA, LinkA, DotsA, PathGone}

SpellingInputs == UNION {[1..n -> Spellings] : n \in 0..MaxPatterns}

\* Containers of every shape, an unreadable file and a missing one.
ExtractFiles ==
  {PathA, PathC, PathE, PathF, PathP, PathQ, PathR, PathBad, PathGone}

ExtractInputs == UNION {[1..n -> ExtractFiles] : n \in 0..MaxExtractPatterns}

RaceInputs == UNION {[1..n -> Patterns] : n \in 0..MaxRacePatterns}

Active(p) == pc[p] \in {"loop", "extract", "rollback"}

Candidate(p) == file_list[p][idx[p]]

Line(out, cause) == [out |-> out, cause |-> cause]

NextCandidate(p, out, cause) ==
  /\ log' = [log EXCEPT ![p] = Append(@, Line(out, cause))]
  /\ idx' = [idx EXCEPT ![p] = @ + 1]
  /\ pc' = [pc EXCEPT ![p] = "loop"]
  /\ exc' = [exc EXCEPT ![p] = "none"]

Count(p, ok) ==
  /\ success_count' = [success_count EXCEPT ![p] = IF ok THEN @ + 1 ELSE @]
  /\ error_count' = [error_count EXCEPT ![p] = IF ok THEN @ ELSE @ + 1]

InitWith(inputs) ==
  /\ catalog = {}
  /\ next_id = 1
  /\ clock = 0
  /\ faults = 0
  /\ listing \in GlobResults
  /\ files \in inputs
  /\ pc = [p \in Procs |-> "idle"]
  /\ file_list = [p \in Procs |-> << >>]
  /\ skip_existing = [p \in Procs |-> TRUE]
  /\ idx = [p \in Procs |-> 1]
  /\ success_count = [p \in Procs |-> 0]
  /\ error_count = [p \in Procs |-> 0]
  /\ log = [p \in Procs |-> << >>]
  /\ pending = [p \in Procs |-> << >>]
  /\ exc = [p \in Procs |-> "none"]
  /\ view = [kind |-> "none"]

Init == InitWith(Inputs)

InitRace == InitWith(RaceInputs)

\* index_files up to the loop: engine, tables, session, expansion, counters.
Begin(p, skip) ==
  /\ pc[p] = "idle"
  /\ \A q \in Procs : q < p => pc[q] # "idle"
  /\ pc' = [pc EXCEPT ![p] = "loop"]
  /\ file_list' = [file_list EXCEPT ![p] = Expand(files, listing)]
  /\ skip_existing' = [skip_existing EXCEPT ![p] = skip]
  /\ UNCHANGED << catalog, next_id, clock, faults, listing, files, view, idx,
                  success_count, error_count, log, pending, exc >>

\* The batch is run, or run again, while no other run is in progress.
Start(p) ==
  /\ \A q \in Procs : ~Active(q)
  /\ \E skip \in BOOLEAN : Begin(p, skip)

\* The batch is started a second time while the first run has just begun:
\* two invocations work on the same database at once.
StartConcurrent(p) ==
  /\ \E q \in Procs : pc[q] = "loop" /\ idx[q] = 1
  /\ \E skip \in BOOLEAN : Begin(p, skip)

\* get_engine or create_tables raises: the exception leaves index_files
\* before any candidate is looked at.
StartFails(p) ==
  /\ pc[p] = "idle"
  /\ \A q \in Procs : q < p => pc[q] # "idle"
  /\ \A q \in Procs : ~Active(q)
  /\ pc' = [pc EXCEPT ![p] = "fatal"]
  /\ exc' = [exc EXCEPT ![p] = "OperationalError"]
  /\ UNCHANGED << catalog, next_id, clock, faults, listing, files, view, file_list, skip_existing,
                  idx, success_count, error_count, log, pending >>

\* The else branch without its error_count += 1.
NotFound_uncounted(p) ==
  /\ pc[p] = "loop" /\ idx[p] <= Len(file_list[p])
  /\ ~Exists(Candidate(p))
  /\ NextCandidate(p, "WARNING", "File not found")
  /\ UNCHANGED << catalog, next_id, clock, faults, listing, files, view,
                  file_list, skip_existing, pending, success_count,
                  error_count >>

\* The candidate is not on disk: warning, error_count += 1.
NotFound(p) ==
  /\ pc[p] = "loop" /\ idx[p] <= Len(file_list[p])
  /\ ~Exists(Candidate(p))
  /\ NextCandidate(p, "WARNING", "File not found")
  /\ Count(p, FALSE)
  /\ UNCHANGED << catalog, next_id, clock, faults, listing, files, view, file_list, skip_existing,
                  pending >>

\* index_file without its first line: the path is looked up as it was given.
Lookup_unresolved(p) ==
  /\ pc[p] = "loop" /\ idx[p] <= Len(file_list[p])
  /\ Exists(Candidate(p))
  /\ IF skip_existing[p] /\ find_by_path(Candidate(p))
     THEN /\ NextCandidate(p, "SKIP", "already in database")
          /\ Count(p, TRUE)
     ELSE /\ pc' = [pc EXCEPT ![p] = "extract"]
          /\ UNCHANGED << log, idx, exc, success_count, error_count >>
  /\ UNCHANGED << catalog, next_id, clock, faults, listing, files, view,
                  file_list, skip_existing, pending >>

\* index_file up to the try block: resolve the path and, with skip_existing,
\* look it up; a row found ends the candidate as a skip.
Lookup(p) ==
  /\ pc[p] = "loop" /\ idx[p] <= Len(file_list[p])
  /\ Exists(Candidate(p))
  /\ IF skip_existing[p] /\ find_by_path(Resolve(Candidate(p)))
     THEN /\ NextCandidate(p, "SKIP", "already in database")
          /\ Count(p, TRUE)
     ELSE /\ pc' = [pc EXCEPT ![p] = "extract"]
          /\ UNCHANGED << log, idx, exc, success_count, error_count >>
  /\ UNCHANGED << catalog, next_id, clock, faults, listing, files, view, file_list, skip_existing,
                  pending >>

\* The lookup query raises: it stands outside the try block, so the
\* exception leaves index_file and index_files.
LookupFails(p) ==
  /\ pc[p] = "loop" /\ idx[p] <= Len(file_list[p])
  /\ Exists(Candidate(p))
  /\ skip_existing[p]
  /\ faults < MaxFaults
  /\ faults' = faults + 1
  /\ pc' = [pc EXCEPT ![p] = "raised"]
  /\ exc' = [exc EXCEPT ![p] = "OperationalError"]
  /\ UNCHANGED << catalog, next_id, clock, listing, files, view, file_list, skip_existing, idx,
                  success_count, error_count, log, pending >>

\* The try block: extract, validate, session.add, session.commit.
Insert(p) ==
  /\ pc[p] = "extract"
  /\ LET metadata == extract_metadata(Resolve(Candidate(p)))
         done == commit(Append(pending[p], metadata))
     IN  IF ~validate_metadata(metadata)
         THEN /\ NextCandidate(p, "ERROR", "Invalid metadata")
              /\ Count(p, FALSE)
              /\ UNCHANGED << catalog, next_id, clock, pending >>
         ELSE /\ catalog' = done.catalog
              /\ pending' = [pending EXCEPT ![p] = done.pending]
              /\ next_id' = next_id + Cardinality(done.catalog \ catalog)
              /\ clock' = IF done.ok THEN clock + 1 ELSE clock
              /\ IF done.ok
                 THEN /\ NextCandidate(p, "INDEXED", "")
                      /\ Count(p, TRUE)
                 ELSE /\ pc' = [pc EXCEPT ![p] = "rollback"]
                      /\ exc' = [exc EXCEPT ![p] = "IntegrityError"]
                      /\ UNCHANGED << log, idx, success_count, error_count >>
  /\ UNCHANGED << faults, listing, files, view, file_list, skip_existing >>

\* session.commit raises a store error other than a uniqueness violation.
CommitFails(p) ==
  /\ pc[p] = "extract"
  /\ faults < MaxFaults
  /\ faults' = faults + 1
  /\ pending' = [pending EXCEPT
                   ![p] = Append(@, extract_metadata(Resolve(Candidate(p))))]
  /\ pc' = [pc EXCEPT ![p] = "rollback"]
  /\ exc' = [exc EXCEPT ![p] = "OperationalError"]
  /\ UNCHANGED << catalog, next_id, clock, listing, files, view, file_list, skip_existing, idx,
                  success_count, error_count, log >>

\* An except block without session.rollback().
Rollback_missing(p) ==
  /\ pc[p] = "rollback"
  /\ NextCandidate(p, "ERROR", exc[p])
  /\ Count(p, FALSE)
  /\ UNCHANGED << catalog, next_id, clock, faults, listing, files, view,
                  file_list, skip_existing, pending >>

\* An except block that rolls back and raises again.
Rollback_reraise(p) ==
  /\ pc[p] = "rollback"
  /\ pending' = [pending EXCEPT ![p] = << >>]
  /\ pc' = [pc EXCEPT ![p] = "raised"]
  /\ UNCHANGED << catalog, next_id, clock, faults, listing, files, view,
                  file_list, skip_existing, idx, success_count, error_count,
                  log, exc >>

\* The except block: print the error, session.rollback(), return False.
Rollback(p) ==
  /\ pc[p] = "rollback"
  /\ pending' = [pending EXCEPT ![p] = << >>]
  /\ NextCandidate(p, "ERROR", exc[p])
  /\ Count(p, FALSE)
  /\ UNCHANGED << catalog, next_id, clock, faults, listing, files, view, file_list, skip_existing >>

\* session.rollback() raises inside the except block: nothing catches it.
RollbackFails(p) ==
  /\ pc[p] = "rollback"
  /\ faults < MaxFaults
  /\ faults' = faults + 1
  /\ pc' = [pc EXCEPT ![p] = "raised"]
  /\ exc' = [exc EXCEPT ![p] = "OperationalError"]
  /\ UNCHANGED << catalog, next_id, clock, listing, files, view, file_list, skip_existing, idx,
                  success_count, error_count, log, pending >>

\* The loop is over: print the summary, session.close().
Finish(p) ==
  /\ pc[p] = "loop" /\ idx[p] > Len(file_list[p])
  /\ pc' = [pc EXCEPT ![p] = "done"]
  /\ pending' = [pending EXCEPT ![p] = << >>]
  /\ UNCHANGED << catalog, next_id, clock, faults, listing, files, view, file_list, skip_existing,
                  idx, success_count, error_count, log, exc >>

\* The process is interrupted (killed, power loss) in the middle of a batch:
\* what its session had not committed is lost.
Interrupt(p) ==
  /\ Active(p)
  /\ pc' = [pc EXCEPT ![p] = "killed"]
  /\ pending' = [pending EXCEPT ![p] = << >>]
  /\ UNCHANGED << catalog, next_id, clock, faults, listing, files, view, file_list, skip_existing,
                  idx, success_count, error_count, log, exc >>

Next ==
  \E p \in Procs :
    \/ Start(p)
    \/ StartFails(p)
    \/ NotFound(p)
    \/ Lookup(p)
    \/ LookupFails(p)
    \/ Insert(p)
    \/ CommitFails(p)
    \/ Rollback(p)
    \/ RollbackFails(p)
    \/ Finish(p)
    \/ Interrupt(p)

Spec == Init /\ [][Next]_vars

\* ------------------------------------------------------------------ app.py

LimitOptions == {10, 50}

\* A column's distinct values that are neither NULL nor empty.
Distinct(col) == {r[col][1] : r \in {x \in catalog : ~Falsy(x[col])}}

\* query.order_by(SpineFile.created_at.desc()).limit(n).all()
RECURSIVE NewestFirst(_, _)
NewestFirst(rows, n) ==
  IF rows = {} \/ n = 0 THEN << >>
  ELSE LET r == CHOOSE x \in rows : \A y \in rows : y.created_at <= x.created_at
       IN  << r >> \o NewestFirst(rows \ {r}, n - 1)

OrNA(v) == IF v = None THEN Some("N/A") ELSE v

\* One line of the table: absent values are shown as N/A, the path by its
\* file name, with the full path as tooltip.
TableRow(r) ==
  [id |-> r.id, run |-> OrNA(r.run), subrun |-> OrNA(r.subrun),
   num_events |-> OrNA(r.num_events),
   event_range |-> IF r.event_min # None /\ r.event_max # None
                   THEN << r.event_min[1], "-", r.event_max[1] >>
                   ELSE << "N/A" >>,
   file_name |-> r.file_path[Len(r.file_path)],
   spine_version |-> IF Falsy(r.spine_version) THEN Some("N/A") ELSE r.spine_version,
   model_name |-> IF Falsy(r.model_name) THEN Some("N/A") ELSE r.model_name,
   created_at |-> r.created_at,
   tooltip |-> r.file_path]

\* The callback that fills the three filter dropdowns.
update_filter_options ==
  /\ view.kind = "none"
  /\ view' = [kind |-> "options", versions |-> Distinct("spine_version"),
              models |-> Distinct("model_name"),
              datasets |-> Distinct("dataset_name")]
  /\ UNCHANGED << catalog, next_id, clock, faults, listing, files, pc,
                  file_list, skip_existing, idx, success_count, error_count,
                  log, pending, exc >>

\* A table callback that deletes the rows it has shown.
update_table_purge(version, model, dataset, limit) ==
  LET match(r) == /\ Falsy(version) \/ r.spine_version = version
                  /\ Falsy(model) \/ r.model_name = model
                  /\ Falsy(dataset) \/ r.dataset_name = dataset
      found == {r \in catalog : match(r)}
      runs == NewestFirst(found, limit)
  IN  /\ view.kind = "none"
      /\ view' = [kind |-> "table",
                  data |-> [k \in DOMAIN runs |-> TableRow(runs[k])],
                  total |-> Cardinality(catalog),
                  filtered |-> Cardinality(found)]
      /\ catalog' = catalog \ found
      /\ UNCHANGED << next_id, clock, faults, listing, files, pc,
                      file_list, skip_existing, idx, success_count, error_count,
                      log, pending, exc >>

\* The callback that fills the table: a filter that is None or empty is not
\* applied.
update_table(version, model, dataset, limit) ==
  LET match(r) == /\ Falsy(version) \/ r.spine_version = version
                  /\ Falsy(model) \/ r.model_name = model
                  /\ Falsy(dataset) \/ r.dataset_name = dataset
      found == {r \in catalog : match(r)}
      runs == NewestFirst(found, limit)
  IN  /\ view.kind = "none"
      /\ view' = [kind |-> "table",
                  data |-> [k \in DOMAIN runs |-> TableRow(runs[k])],
                  total |-> Cardinality(catalog),
                  filtered |-> Cardinality(found)]
      /\ UNCHANGED << catalog, next_id, clock, faults, listing, files, pc,
                      file_list, skip_existing, idx, success_count, error_count,
                      log, pending, exc >>

\* The filter values a browser session sends: nothing, or a value of the
\* files on disk.
FilterVersions == {None, Some("0.7.0")}

FilterModels == {None, Some("icarus")}

FilterDatasets == {None, Some("sbnd_run2")}

\* The response of a callback goes out to the browser.
Respond ==
  /\ view.kind # "none"
  /\ view' = [kind |-> "none"]
  /\ UNCHANGED << catalog, next_id, clock, faults, listing, files, pc,
                  file_list, skip_existing, idx, success_count, error_count,
                  log, pending, exc >>

Browse ==
  \/ Respond
  \/ update_filter_options
  \/ \E version \in FilterVersions, model \in FilterModels,
        dataset \in FilterDatasets, limit \in LimitOptions :
       update_table(version, model, dataset, limit)

\* Indexing with the browser open.
NextBrowse == Next \/ Browse

BrowseSpec == InitRace /\ [][NextBrowse]_vars

\* Runs over different spellings of one file.
InitSpellings == InitWith(SpellingInputs)

SpellingSpec == InitSpellings /\ [][Next]_vars

\* Runs over containers of every shape.
InitExtract == InitWith(ExtractInputs)

ExtractSpec == InitExtract /\ [][Next]_vars

\* Two invocations at once.
NextRace == Next \/ \E p \in Procs : StartConcurrent(p)

RaceSpec == InitRace /\ [][NextRace]_vars

\* ----------------------------------------------------------------- claims

\* The committed rows of a path.
Records(path) == {r \in catalog : r.file_path = path}

\* The resolved path of candidate j of run p.
PathOf(p, j) == Resolve(file_list[p][j])

\* Run p prints the line of a candidate in this step.
Printed(p) == Len(log'[p]) = Len(log[p]) + 1

LastLine(p) == log'[p][Len(log'[p])]

Lines(p, outs) == {j \in DOMAIN log[p] : log[p][j].out \in outs}

\* A candidate run 1 left in the catalog is skipped by the later run 2 when
\* that run has skip_existing set, and has exactly one row.
C1_SecondRunSkips ==
  \A j \in DOMAIN log[1], k \in DOMAIN log[2] :
    ( /\ skip_existing[2]
      /\ log[1][j].out \in {"INDEXED", "SKIP"}
      /\ PathOf(2, k) = PathOf(1, j) )
    => /\ log[2][k].out = "SKIP"
       /\ Cardinality(Records(PathOf(1, j))) = 1

\* A skip is counted as a success and leaves the catalog alone.
C1_SkipStep ==
  \A p \in Procs :
    (Printed(p) /\ LastLine(p).out = "SKIP")
    => /\ catalog' = catalog
       /\ success_count'[p] = success_count[p] + 1
       /\ error_count'[p] = error_count[p]

\* C1: Idempotence. For any existing file, indexing it twice with
\* skip_existing=true (one run after the other) leaves exactly one catalog
\* row for its resolved path; the second run reports it as skipped, counts
\* it as a success and does not change the catalog.
C1_Idempotence == [] C1_SecondRunSkips /\ [][C1_SkipStep]_vars

\* Both runs are over, both with skip_existing: the first indexed a file, the
\* second skipped it.
C1_Witness ==
  /\ pc[1] = "done" /\ pc[2] = "done"
  /\ skip_existing[1] /\ skip_existing[2]
  /\ \E j \in DOMAIN log[1], k \in DOMAIN log[2] :
       /\ log[1][j].out = "INDEXED"
       /\ PathOf(2, k) = PathOf(1, j)
       /\ log[2][k].out = "SKIP"
       /\ Cardinality(Records(PathOf(1, j))) = 1

\* No two rows of the catalog have the same file_path.
UniquePaths ==
  \A r1, r2 \in catalog : r1.file_path = r2.file_path => r1 = r2

\* An error line that names an IntegrityError stands for a path that has
\* exactly one row.
C2_DuplicateLines ==
  \A p \in Procs : \A j \in DOMAIN log[p] :
    (log[p][j].out = "ERROR" /\ log[p][j].cause = "IntegrityError")
    => Cardinality(Records(PathOf(p, j))) = 1

\* An insert attempted for a path that is already cataloged writes nothing
\* and, unless the store fails in another way or the run is interrupted,
\* ends in the except block with an IntegrityError, which the rollback
\* reports as the error of that candidate.
C2_DuplicateStep ==
  \A p \in Procs :
    /\ ( /\ pc[p] = "extract" /\ pc'[p] # "extract"
         /\ PathOf(p, idx[p]) \in CatalogPaths )
       => /\ catalog' = catalog
          /\ pc'[p] \in {"rollback", "killed"}
          /\ (pc'[p] = "rollback" /\ faults' = faults)
             => exc'[p] = "IntegrityError"
    /\ (pc[p] = "rollback" /\ Printed(p))
       => /\ LastLine(p) = Line("ERROR", exc[p])
          /\ catalog' = catalog

\* C2: Uniqueness. In every reachable state no two catalog rows have the
\* same file_path; an insert attempted for a resolved path that is already
\* cataloged (skip_existing=false, or a lost race) leaves exactly one row
\* for the path and ends as a duplicate failure.
C2_Uniqueness ==
  [] (UniquePaths /\ C2_DuplicateLines) /\ [][C2_DuplicateStep]_vars

\* A run reported a duplicate failure for a path that has its one row.
C2_Witness ==
  \E p \in Procs : \E j \in DOMAIN log[p] :
    /\ log[p][j] = Line("ERROR", "IntegrityError")
    /\ Cardinality(Records(PathOf(p, j))) = 1

\* Candidate j of run p is not on disk, or is on disk and no container.
Missing(p, j) == PathOf(p, j) \notin OnDisk

Corrupt(p, j) == PathOf(p, j) \in OnDisk \ DOMAIN Containers

\* The first run went over its whole batch on an empty catalog with no store
\* error, and the batch is N files of which exactly one, k, is corrupt or
\* missing and the others are valid files, each named once.
OneBadFile(k) ==
  /\ pc[1] = "done" /\ pc[2] = "idle" /\ faults = 0
  /\ k \in DOMAIN file_list[1]
  /\ Missing(1, k) \/ Corrupt(1, k)
  /\ \A j \in DOMAIN file_list[1] \ {k} : PathOf(1, j) \in DOMAIN Containers
  /\ \A i, j \in DOMAIN file_list[1] : PathOf(1, i) = PathOf(1, j) => i = j

\* Every file but k is indexed, with the metadata extracted from it.
OthersIndexed(k) ==
  \A j \in DOMAIN file_list[1] \ {k} :
    /\ log[1][j] = Line("INDEXED", "")
    /\ \E r \in catalog :
         \A f \in DOMAIN extract_metadata(PathOf(1, j)) :
           r[f] = extract_metadata(PathOf(1, j))[f]

\* C3 as stated: with one corrupt or missing file k among N candidates the
\* run ends with N-1 successes and 1 error.
C3_OneErrorOriginal ==
  \A k \in DOMAIN file_list[1] :
    OneBadFile(k)
    => /\ success_count[1] = Len(file_list[1]) - 1
       /\ error_count[1] = 1

\* C3: Partial-failure isolation, amended. With one missing file k among N
\* candidates the run ends with N-1 successes and 1 error; with one corrupt
\* file k (on disk, not readable as a container) k is cataloged with only
\* its file_path and the run ends with N successes and no error. In both
\* cases every other file is indexed as it is in a batch without k.
C3_PartialFailure ==
  \A k \in DOMAIN file_list[1] :
    OneBadFile(k)
    => /\ OthersIndexed(k)
       /\ Missing(1, k)
          => /\ log[1][k] = Line("WARNING", "File not found")
             /\ success_count[1] = Len(file_list[1]) - 1
             /\ error_count[1] = 1
             /\ Records(PathOf(1, k)) = {}
       /\ Corrupt(1, k)
          => /\ log[1][k] = Line("INDEXED", "")
             /\ success_count[1] = Len(file_list[1])
             /\ error_count[1] = 0
             /\ \E r \in Records(PathOf(1, k)) :
                  \A f \in DOMAIN EmptyMetadata(PathOf(1, k)) :
                    r[f] = EmptyMetadata(PathOf(1, k))[f]

\* A finished batch of at least two files whose one bad file is corrupt.
C3_Witness ==
  \E k \in DOMAIN file_list[1] :
    /\ OneBadFile(k)
    /\ Corrupt(1, k)
    /\ Len(file_list[1]) >= 2
    /\ success_count[1] = Len(file_list[1])

\* C4 as stated: no per-file failure leaves index_files.
C4_NothingPropagates == \A p \in Procs : pc[p] # "raised"

\* The number of candidates the `files` argument expands to: a pattern
\* stands for each of its matches, a literal for itself, repeats included.
RECURSIVE Expected(_)
Expected(patterns) ==
  IF patterns = << >> THEN 0
  ELSE (IF Head(patterns) = GlobData THEN Len(listing) ELSE 1)
       + Expected(Tail(patterns))

\* C5: Report accounting. When index_files finishes, success count plus
\* error count is the number of candidates of the expanded list, duplicates
\* kept; skipped and indexed candidates are the successes, missing files
\* and failed inserts the errors. The same holds of the candidates gone
\* through at any point of the run.
C5_Accounting ==
  \A p \in Procs :
    /\ success_count[p] = Cardinality(Lines(p, {"SKIP", "INDEXED"}))
    /\ error_count[p] = Cardinality(Lines(p, {"WARNING", "ERROR"}))
    /\ success_count[p] + error_count[p] = Len(log[p])
    /\ pc[p] \in {"loop", "done"} => Len(log[p]) = idx[p] - 1
    /\ pc[p] = "done"
       => /\ success_count[p] + error_count[p] = Len(file_list[p])
          /\ Len(file_list[p]) = Expected(files)

\* A finished run over a list that names a file twice and a missing file or
\* a skip: each candidate is counted once.
C5_Witness ==
  \E p \in Procs :
    /\ pc[p] = "done"
    /\ \E i, j \in DOMAIN file_list[p] : i # j /\ PathOf(p, i) = PathOf(p, j)
    /\ Lines(p, {"SKIP"}) # {}
    /\ success_count[p] + error_count[p] = Len(file_list[p])

\* C6: Insert-only catalog. Across index runs with skip_existing true or
\* false and browse queries, a committed row is never modified and never
\* deleted: every row of the catalog, with every field of it, is a row of
\* the catalog after the step, and the cataloged paths only grow.
C6_InsertOnly ==
  [][ /\ catalog \subseteq catalog'
      /\ CatalogPaths \subseteq CatalogPaths' ]_vars

\* A row was committed, an insert for its path was then refused, and the
\* table has been browsed.
C6_Witness ==
  /\ view.kind = "table"
  /\ \E p \in Procs : \E j \in DOMAIN log[p] :
       /\ log[p][j] = Line("ERROR", "IntegrityError")
       /\ Records(PathOf(p, j)) # {}

\* Run p leaves the try block or the except block in this step.
Leaves(p, at) == pc[p] = at /\ pc'[p] # at

\* Outside the try block a session holds no pending row.
SessionClean ==
  \A p \in Procs : pc[p] \in {"loop", "done"} => pending[p] = << >>

C7_Step ==
  \A p \in Procs :
    /\ (Leaves(p, "extract") /\ pc'[p] = "rollback")
       => /\ catalog' = catalog
          /\ success_count' = success_count /\ error_count' = error_count
    /\ Leaves(p, "rollback")
       => \/ pc'[p] = "killed"
          \/ faults' = faults + 1 /\ pc'[p] = "raised"
          \/ /\ Printed(p) /\ LastLine(p) = Line("ERROR", exc[p])
             /\ error_count'[p] = error_count[p] + 1
             /\ success_count'[p] = success_count[p]
             /\ catalog' = catalog
             /\ pending'[p] = << >>
             /\ pc'[p] = "loop" /\ idx'[p] = idx[p] + 1
    /\ ( /\ Leaves(p, "extract") /\ pc'[p] # "killed" /\ faults' = faults
         /\ PathOf(p, idx[p]) \notin CatalogPaths )
       => /\ Printed(p) /\ LastLine(p) = Line("INDEXED", "")
          /\ \E r \in catalog' : r.file_path = PathOf(p, idx[p])

\* C7: Insert failure handling. When the insert of a candidate fails, the
\* transaction is rolled back, the candidate is counted as an error, the
\* catalog is as it was before the candidate, and the loop goes on: a later
\* candidate whose path is not cataloged is inserted through the same
\* session. (A rollback that itself raises is the case of C4.)
C7_InsertFailure == [] SessionClean /\ [][C7_Step]_vars

\* One run reported a failed insert and indexed a later candidate.
C7_Witness ==
  \E p \in Procs : \E j, k \in DOMAIN log[p] :
    /\ j < k
    /\ log[p][j].out = "ERROR"
    /\ log[p][k].out = "INDEXED"
    /\ Records(PathOf(p, k)) # {}

\* What a run reported as indexed is in the catalog, whatever became of the
\* run afterwards.
C8_Persisted ==
  \A p \in Procs : \A j \in Lines(p, {"INDEXED"}) : Records(PathOf(p, j)) # {}

\* Run 1 was interrupted; run 2, with skip_existing and no store error, went
\* over the batch.
Resumed ==
  /\ pc[1] = "killed" /\ pc[2] = "done" /\ skip_existing[2]
  /\ \A k \in DOMAIN log[2] : log[2][k].cause # "OperationalError"

C8_Resume ==
  Resumed =>
    \A k \in DOMAIN file_list[2] :
      PathOf(2, k) \in OnDisk
      => /\ Cardinality(Records(PathOf(2, k))) = 1
         /\ log[2][k].out \in {"SKIP", "INDEXED"}
         /\ log[2][k].out = "SKIP"
            <=> \/ \E j \in Lines(1, {"INDEXED"}) : PathOf(1, j) = PathOf(2, k)
                \/ \E j \in 1..(k - 1) : PathOf(2, j) = PathOf(2, k)

\* C8: Per-file commit and crash safety. Each successful insert is
\* committed before the next candidate is considered, so after an
\* interruption every row reported as indexed is persisted, and a later run
\* with skip_existing=true skips exactly the files already cataloged and
\* indexes the others, ending with one row per file on disk.
C8_CrashSafety == C8_Persisted /\ C8_Resume

\* Run 1 was interrupted in mid-batch after an insert; run 2 skipped what
\* it had inserted and indexed the rest.
C8_Witness ==
  /\ Resumed
  /\ idx[1] <= Len(file_list[1])
  /\ Lines(1, {"INDEXED"}) # {}
  /\ Lines(2, {"SKIP"}) # {}
  /\ Lines(2, {"INDEXED"}) # {}

\* Lines j of run 1 and k of run 2 are insert attempts for one path by runs
\* that both had skip_existing set: both looked the path up before either
\* committed it.
Raced(j, k) ==
  /\ skip_existing[1] /\ skip_existing[2]
  /\ PathOf(1, j) = PathOf(2, k)
  /\ log[1][j].out \in {"INDEXED", "ERROR"}
  /\ log[2][k].out \in {"INDEXED", "ERROR"}
  /\ log[1][j].cause # "OperationalError"
  /\ log[2][k].cause # "OperationalError"

C9_OneCommits ==
  /\ UniquePaths
  /\ \A j \in DOMAIN log[1], k \in DOMAIN log[2] :
       Raced(j, k)
       => /\ Cardinality(Records(PathOf(1, j))) = 1
          /\ { log[1][j], log[2][k] }
               = { Line("INDEXED", ""), Line("ERROR", "IntegrityError") }
  /\ \A p \in Procs : pc[p] = "raised" => exc[p] = "OperationalError"

C9_Step ==
  \A p \in Procs :
    (Leaves(p, "rollback") /\ exc[p] = "IntegrityError")
    => \/ pc'[p] = "killed"
       \/ faults' = faults + 1
       \/ /\ pc'[p] = "loop" /\ idx'[p] = idx[p] + 1
          /\ Printed(p) /\ LastLine(p) = Line("ERROR", "IntegrityError")
          /\ error_count'[p] = error_count[p] + 1

\* C9: Concurrent indexers. When two invocations with skip_existing=true
\* both pass the lookup of a path before either commits, exactly one insert
\* commits; the other gets the uniqueness failure, which is reported as the
\* error of that candidate (rolled back, the batch goes on) and never
\* leaves index_files.
C9_Race == [] C9_OneCommits /\ [][C9_Step]_vars

\* Both runs are over: one indexed the path, the other lost the race.
C9_Witness ==
  /\ pc[1] = "done" /\ pc[2] = "done"
  /\ \E j \in DOMAIN log[1], k \in DOMAIN log[2] :
       /\ Raced(j, k)
       /\ log[2][k].out # log[1][j].out

\* A missing candidate has the warning as its line and no row.
C10_MissingLines ==
  \A p \in Procs : \A j \in DOMAIN log[p] :
    Missing(p, j)
    => log[p][j] = Line("WARNING", "File not found") /\ Records(PathOf(p, j)) = {}

C10_Step ==
  \A p \in Procs :
    ( /\ Leaves(p, "loop") \/ (pc[p] = "loop" /\ idx'[p] # idx[p])
      /\ idx[p] <= Len(file_list[p])
      /\ Missing(p, idx[p])
      /\ pc'[p] # "killed" )
    => /\ Printed(p) /\ LastLine(p) = Line("WARNING", "File not found")
       /\ error_count'[p] = error_count[p] + 1
       /\ success_count'[p] = success_count[p]
       /\ pc'[p] = "loop" /\ idx'[p] = idx[p] + 1
       /\ UNCHANGED << catalog, next_id, clock, faults, pending, exc >>

\* C10: Missing candidate. For a candidate that is not on disk index_files
\* prints the file-not-found warning, counts an error and moves on: no
\* query is made (so no store error can arise), nothing is extracted or
\* added to the session, and the catalog is unchanged.
C10_Missing == [] C10_MissingLines /\ [][C10_Step]_vars

\* A run went past a missing candidate and on to the next one.
C10_Witness ==
  \E p \in Procs : \E j \in DOMAIN log[p] :
    /\ Missing(p, j)
    /\ log[p][j].out = "WARNING"
    /\ j < Len(log[p])

\* The file each spelling names, as the file system sees it.
FileOf ==
  (PathA :> PathA) @@ (RelA :> PathA) @@ (LinkA :> PathA) @@ (DotsA :> PathA)
  @@ (PathB :> PathB) @@ (PathBad :> PathBad)

\* An absolute path with no dot part and no symbolic link on the way.
IsCanonical(path) ==
  /\ IsAbsolute(path)
  /\ \A n \in DOMAIN path :
       /\ path[n] \notin {".", ".."}
       /\ SubSeq(path, 1, n) \notin DOMAIN Symlinks

\* Candidate j of run p is a spelling of a file on disk.
Names(p, j) == file_list[p][j] \in DOMAIN FileOf

C11_CanonicalRows ==
  \A r \in catalog : IsCanonical(r.file_path) /\ r.file_path \in OnDisk

\* A candidate indexed or skipped has exactly one row, under the path of
\* the file it names, whatever its spelling.
C11_OneRowPerFile ==
  \A p \in Procs : \A j \in Lines(p, {"INDEXED", "SKIP"}) :
    Names(p, j)
    => /\ Cardinality(Records(FileOf[file_list[p][j]])) = 1
       /\ Cardinality({r \in catalog :
             r.file_path \in {s \in DOMAIN FileOf :
                                FileOf[s] = FileOf[file_list[p][j]]}}) = 1

\* With skip_existing, a later spelling of a file the run has cataloged is
\* found by the lookup.
C11_LookupKey ==
  \A p \in Procs : \A j, k \in DOMAIN log[p] :
    ( /\ skip_existing[p] /\ j < k
      /\ Names(p, j) /\ Names(p, k)
      /\ FileOf[file_list[p][j]] = FileOf[file_list[p][k]]
      /\ log[p][j].out \in {"INDEXED", "SKIP"} )
    => log[p][k].out = "SKIP"

\* C11: Resolved-path key. Every catalog row has an absolute, canonical
\* file_path, and the path index_file looks up is the resolved value that
\* extract_metadata stores, so different spellings of one file (relative or
\* absolute, with dot parts, through a symbolic link, repeated) map to at
\* most one row.
C11_ResolvedKey == C11_CanonicalRows /\ C11_OneRowPerFile /\ C11_LookupKey

\* A run indexed a file under one spelling and skipped it under another,
\* one of the two going through the symbolic link.
C11_Witness ==
  \E p \in Procs : \E j, k \in DOMAIN log[p] :
    /\ j < k
    /\ file_list[p][j] # file_list[p][k]
    /\ LinkA \in {file_list[p][j], file_list[p][k]}
    /\ log[p][j].out = "INDEXED" /\ log[p][k].out = "SKIP"
    /\ Cardinality(catalog) = 1

\* Every field of a row but file_path is absent.
OnlyPath(r) ==
  \A f \in DOMAIN EmptyMetadata(r.file_path) :
    f # "file_path" => r[f] = None

\* C12 as stated: Read failure degrades to a file_path-only record. Whenever
\* opening or reading the container fails at any point (at open, while
\* reading attributes, or while reading the events table) the record
\* returned, and so the row cataloged, has the resolved file_path and every
\* other field absent.
C12_FilePathOnly ==
  \A r \in catalog :
    /\ r.file_path = Resolve(r.file_path)
    /\ Read(r.file_path).raised => OnlyPath(r)

\* The value of an attribute key of a container, else of its alternate key.
Attr(file_path, key, alternate) ==
  LET attrs == Containers[file_path].attrs
  IN  IF key \in DOMAIN attrs THEN Some(attrs[key])
      ELSE IF alternate \in DOMAIN attrs THEN Some(attrs[alternate])
      ELSE None

\* The first known site name that is a segment of the path, if any.
SiteOf(file_path) ==
  IF \E k \in DOMAIN KnownSites : \E i \in DOMAIN file_path :
       file_path[i] = KnownSites[k]
  THEN Some(KnownSites[CHOOSE k \in DOMAIN KnownSites :
         /\ \E i \in DOMAIN file_path : file_path[i] = KnownSites[k]
         /\ \A j \in 1..(k - 1) :
              \A i \in DOMAIN file_path : file_path[i] # KnownSites[j]])
  ELSE None

\* Rows of containers that were read to the end.
ReadRows == {r \in catalog : ~Read(r.file_path).raised}

\* C13 as stated: Resolver precedence in extraction. spine_version,
\* model_name and dataset_name take the value of their primary attribute key
\* if it exists, else of the alternate key; only a field still absent is
\* inferred (model_name from the first known site in the path, dataset_name
\* from the file's base name), and a field resolved from an attribute is
\* never overwritten by inference.
C13_Precedence ==
  \A r \in ReadRows :
    LET version == Attr(r.file_path, "spine_version", "version")
        model == Attr(r.file_path, "model_name", "config_name")
        dataset == Attr(r.file_path, "dataset_name", "dataset")
    IN  /\ r.spine_version = version
        /\ r.model_name = IF model # None THEN model ELSE SiteOf(r.file_path)
        /\ r.dataset_name = IF dataset # None THEN dataset
                            ELSE Some(Stem(r.file_path))

\* The values of the event identifier column of a container, in row order:
\* `event` if the events table has it, else `event_id`; empty without a
\* table, a column or rows.
EventValues(file_path) ==
  LET datasets == Containers[file_path].datasets
      events == datasets["events"]
      col == IF "event" \in events.names THEN "event" ELSE "event_id"
  IN  IF "events" \notin DOMAIN datasets THEN << >>
      ELSE IF {"event", "event_id"} \cap events.names = {} THEN << >>
      ELSE [i \in DOMAIN events.rows |-> events.rows[i][col]]

\* A row read to the end holds the least value, the greatest value and the
\* number of values of the column, or none of the three.
C14_Derived ==
  \A r \in ReadRows :
    LET values == EventValues(r.file_path)
        range == {values[i] : i \in DOMAIN values}
    IN  IF values = << >>
        THEN r.event_min = None /\ r.event_max = None /\ r.num_events = None
        ELSE /\ \E m \in range : /\ r.event_min = Some(m)
                                 /\ \A v \in range : m <= v
             /\ \E m \in range : /\ r.event_max = Some(m)
                                 /\ \A v \in range : m >= v
             /\ r.num_events = Some(Len(values))

\* The column [5, 3, 9, 7] of a.h5 gives 3, 9 and 4.
C14_Example ==
  \A r \in Records(PathA) :
    r.event_min = Some(3) /\ r.event_max = Some(9) /\ r.num_events = Some(4)

\* Every row has the three fields together or not at all, and in order.
C14_Ordered ==
  \A r \in catalog :
    \/ r.event_min = None /\ r.event_max = None /\ r.num_events = None
    \/ /\ r.event_min # None /\ r.event_max # None /\ r.num_events # None
       /\ r.event_min[1] <= r.event_max[1]
       /\ r.num_events[1] >= 1

\* C14: Event-range derivation. When the events table has an event
\* identifier column (event preferred over event_id) with at least one row,
\* extraction sets event_min to the minimum, event_max to the maximum and
\* num_events to the row count ([5,3,9,7] gives 3, 9, 4); when the column is
\* missing or empty all three stay absent; so every catalog row that has
\* the three fields satisfies event_min <= event_max and num_events >= 1.
C14_EventRange == C14_Derived /\ C14_Example /\ C14_Ordered

\* a.h5, whose least event identifier is not in the first row, is cataloged.
C14_Witness ==
  \E r \in Records(PathA) :
    /\ EventValues(PathA)[1] # 3
    /\ r.event_min = Some(3) /\ r.num_events = Some(4)

\* The candidates printed as INDEXED, by run and position.
IndexedLines ==
  UNION {{<< p, j >> : j \in Lines(p, {"INDEXED"})} : p \in Procs}

\* A step that changes the view is a step of a browse callback; it leaves
\* the store and the sessions of the runs as they were.
C15_Step ==
  view' # view
  => UNCHANGED << catalog, next_id, clock, pending, faults, pc, idx, log,
                  success_count, error_count >>

\* The catalog is the one the index operations produced: one row for each
\* candidate printed as INDEXED, under its resolved path.
C15_IndexedOnly ==
  /\ CatalogPaths = {PathOf(pj[1], pj[2]) : pj \in IndexedLines}
  /\ Cardinality(catalog) = Cardinality(IndexedLines)
  /\ next_id = Cardinality(catalog) + 1

\* C15: Browse is read-only. The browse callbacks (filter-option listing and
\* the filtered, created_at-descending, limited table query) never insert,
\* update or delete catalog rows; after any interleaving of browse queries
\* with index operations the catalog equals the one produced by the index
\* operations alone.
C15_ReadOnly == []C15_IndexedOnly /\ [][C15_Step]_vars

\* The filter options are listed from a non-empty catalog while a run is
\* inside the try block of index_file.
C15_Witness ==
  /\ view.kind = "options"
  /\ catalog # {}
  /\ \E p \in Procs : pc[p] = "extract"

\* Every record extract_metadata returns for a candidate passes the
\* validator, whether or not the container could be read.
C16_AlwaysValid ==
  \A p \in Procs : \A j \in DOMAIN file_list[p] :
    /\ extract_metadata(PathOf(p, j)).file_path = PathOf(p, j)
    /\ validate_metadata(extract_metadata(PathOf(p, j)))

\* No candidate is reported as invalid.
C16_NoInvalidLine ==
  \A p \in Procs : \A j \in DOMAIN log[p] :
    log[p][j].cause # "Invalid metadata"

\* A candidate that has entered the try block leaves it through the insert:
\* committed and printed as INDEXED, or refused and handed to the except
\* block, unless the process is killed first.
C16_Step ==
  \A p \in Procs :
    Leaves(p, "extract")
    => \/ pc'[p] = "killed"
       \/ pc'[p] = "rollback" /\ pending'[p] # << >>
       \/ /\ Printed(p) /\ LastLine(p) = Line("INDEXED", "")
          /\ \E r \in catalog' \ catalog : r.file_path = PathOf(p, idx[p])

\* C16: validate_metadata returns true for every record extract_metadata
\* can return, since file_path is set before any read is attempted; the
\* "invalid metadata" branch of index_file is never taken, and every
\* candidate that exists on disk and is not skipped proceeds to an insert
\* attempt, files whose container could not be read included.
C16_ValidatorPasses ==
  []C16_AlwaysValid /\ []C16_NoInvalidLine /\ [][C16_Step]_vars

\* A file whose read raised has been inserted and printed as INDEXED.
C16_Witness ==
  \E p \in Procs : \E j \in Lines(p, {"INDEXED"}) :
    /\ Read(PathOf(p, j)).raised
    /\ Records(PathOf(p, j)) # {}

====
